---- MODULE Spec2Model ----
(***************************************************************************)
(* Cafe feedback dashboard (data_analysis.py): the cleaning pipeline       *)
(* (location normalisation, parse_value, load_data), the word-frequency    *)
(* extractor top_words, the narrative builder build_narrative and the      *)
(* top-level script that filters the cleaned records on every rerun.       *)
(*                                                                         *)
(* Python strings that the code inspects character by character are        *)
(* sequences of one-character strings.  Money is counted in cents, so      *)
(* that the two decimal digits the pattern of parse_value can match are    *)
(* exact.  Ratings are integers.                                           *)
(***************************************************************************)
EXTENDS Integers, Sequences, FiniteSets, TLC

VARIABLES
    pv_x,        \* parse_value: the raw cell x
    pv_ret,      \* parse_value: the value returned
    pv_pc,       \* "call" before parse_value ran on pv_x, "ret" after
    loc_x,       \* location normalisation: the raw Location cell
    loc_once,    \* the cell normalised
    loc_twice,   \* the normalised cell normalised again
    loc_pc,      \* "raw", "once", "twice"
    tw_series,   \* top_words: the comment cells
    tw_n,        \* top_words: n
    tw_ret,      \* top_words: the pair (words, freq) returned
    tw_pc,       \* "call", "ret"
    ld_raw,      \* load_data: the rows read from the file
    ld_df,       \* load_data: the frame returned
    ld_pc,       \* "call", "ret"
    bn_df,       \* build_narrative: the filtered frame df
    bn_base_len, \* build_narrative: base_len
    bn_words,    \* build_narrative: words
    bn_top_loc,  \* build_narrative: its local top_loc, a head(1) frame
    bn_bottom_loc, \* build_narrative: its local bottom_loc
    bn_ret,      \* build_narrative: the words of the text returned
    bn_pc,       \* "call", "ret"
    file,        \* the script: the data file on disk
    df_full,     \* the cleaned frame load_data returned
    df,          \* the filtered frame
    locations,   \* the multiselect's selection
    rating_range, \* the slider's pair (rating_min, rating_max), in tenths
    chosen,      \* the date input's value: a tuple of 0, 1 or 2 dates
    warning,     \* whether st.warning("No data ...") was shown
    metrics,     \* the KPI cards
    top_loc,     \* the top-10 table of the script
    words,       \* the words top_words returned
    summary,     \* the words of the summary written
    pc           \* position of the script in the current run

(***************************************************************************)
(* Strings                                                                 *)
(***************************************************************************)

\* Characters str.strip() strips and the pattern \s matches.
Whitespace == {" ", "\t", "\n"}

DigitChars == {"0", "1", "2", "3", "4", "5", "6", "7", "8", "9"}

DigitVal(c) ==
    CASE c = "0" -> 0 [] c = "1" -> 1 [] c = "2" -> 2 [] c = "3" -> 3
      [] c = "4" -> 4 [] c = "5" -> 5 [] c = "6" -> 6 [] c = "7" -> 7
      [] c = "8" -> 8 [] c = "9" -> 9

\* All strings over the alphabet A of length at most n.
StringsUpTo(A, n) == UNION {[1..k -> A] : k \in 0..n}

RECURSIVE LStrip(_)
LStrip(s) ==
    IF s # <<>> /\ Head(s) \in Whitespace THEN LStrip(Tail(s)) ELSE s

RECURSIVE RStrip(_)
RStrip(s) ==
    IF s # <<>> /\ s[Len(s)] \in Whitespace
    THEN RStrip(SubSeq(s, 1, Len(s) - 1))
    ELSE s

\* str.strip()
Strip(s) == RStrip(LStrip(s))

\* Optional values: Python's None / NaN against a value.
None == [some |-> FALSE, v |-> 0]
Some(n) == [some |-> TRUE, v |-> n]

(***************************************************************************)
(* parse_value                                                             *)
(***************************************************************************)

\* The range check of parse_value, in cents.
MaxValueCents == 50000

\* Number of characters of s from position p on that are in the set C,
\* at most max of them (a greedy bounded repetition of a character class).
RECURSIVE Run(_, _, _, _)
Run(s, p, C, max) ==
    IF max > 0 /\ p <= Len(s) /\ s[p] \in C
    THEN 1 + Run(s, p + 1, C, max - 1)
    ELSE 0

\* (?:,[0-9]{3})* from position p: the position after the last group.
RECURSIVE CommaGroups(_, _)
CommaGroups(s, p) ==
    IF p + 3 <= Len(s) /\ s[p] = "," /\ Run(s, p + 1, DigitChars, 3) = 3
    THEN CommaGroups(s, p + 4)
    ELSE p

\* First alternative of the group, [0-9]{1,3}(?:,[0-9]{3})*, from p:
\* the position after it, or 0 when it does not match.
Alt1End(s, p) ==
    LET d == Run(s, p, DigitChars, 3)
    IN  IF d = 0 THEN 0 ELSE CommaGroups(s, p + d)

\* Second alternative, [0-9]+, from p.
Alt2End(s, p) ==
    LET d == Run(s, p, DigitChars, Len(s))
    IN  IF d = 0 THEN 0 ELSE p + d

\* The alternation: the first alternative that lets the rest of the pattern
\* match wins; the rest of the pattern is optional, so it never fails.
GroupEnd(s, p) ==
    IF Alt1End(s, p) # 0 THEN Alt1End(s, p) ELSE Alt2End(s, p)

\* (?:\.[0-9]{1,2})? from position p: the position after it.
DecimalsEnd(s, p) ==
    IF p <= Len(s) /\ s[p] = "." /\ Run(s, p + 1, DigitChars, 2) > 0
    THEN p + 1 + Run(s, p + 1, DigitChars, 2)
    ELSE p

\* The whole pattern anchored at position i: the position after the match,
\* or 0 when there is no match starting at i.
MatchAt(s, i) ==
    LET a == IF i <= Len(s) /\ s[i] = "-" THEN i + 1 ELSE i
        b == IF a <= Len(s) /\ s[a] = "$" THEN a + 1 ELSE a
        c == b + Run(s, b, Whitespace, Len(s))
        g == GroupEnd(s, c)
    IN  IF g = 0 THEN 0 ELSE DecimalsEnd(s, g)

\* re.search: the match at the leftmost position that has one.
RECURSIVE SearchFrom(_, _)
SearchFrom(s, i) ==
    IF i > Len(s) THEN <<>>
    ELSE IF MatchAt(s, i) # 0 THEN SubSeq(s, i, MatchAt(s, i) - 1)
    ELSE SearchFrom(s, i + 1)

Search(s) == SearchFrom(s, 1)

\* re.sub(r"[,$]", "", g)
RECURSIVE RemoveCommaDollar(_)
RemoveCommaDollar(g) ==
    IF g = <<>> THEN <<>>
    ELSE IF Head(g) \in {",", "$"} THEN RemoveCommaDollar(Tail(g))
    ELSE <<Head(g)>> \o RemoveCommaDollar(Tail(g))

\* Value of a run of digits, times 100 for the integer part.
RECURSIVE DigitsValue(_)
DigitsValue(d) ==
    IF d = <<>> THEN 0
    ELSE 10 * DigitsValue(SubSeq(d, 1, Len(d) - 1)) + DigitVal(d[Len(d)])

\* A float holds every numeral the pattern can match; the model's integers
\* are 32 bits wide.  A whole part of more than MaxExactDigits significant
\* digits is represented by BeyondExact, which is above every amount held
\* exactly: the code only tests such a value's sign and its being above the
\* limit.
MaxExactDigits == 6

BeyondExact == 10 ^ (MaxExactDigits + 2)

RECURSIVE Significant(_)
Significant(d) ==
    IF d # <<>> /\ Head(d) = "0" THEN Significant(Tail(d)) ELSE d

\* The cents of a whole part d and a fraction f of at most two digits.
Cents(d, f) ==
    IF Len(Significant(d)) > MaxExactDigits THEN BeyondExact
    ELSE 100 * DigitsValue(Significant(d))
           + (IF Len(f) = 1 THEN 10 * DigitsValue(f) ELSE DigitsValue(f))

\* float(t) of an unsigned numeral digits[.d[d]], in cents.
UnsignedCents(t) ==
    LET n == Run(t, 1, DigitChars, Len(t))
    IN  Cents(SubSeq(t, 1, n), SubSeq(t, n + 2, Len(t)))

\* float() accepts surrounding whitespace and a sign directly before the
\* numeral; whitespace between the sign and the digits is a ValueError.
FloatText(t) == Strip(t)

FloatRaises(t) ==
    LET u == FloatText(t)
    IN  \/ u = <<>>
        \/ Head(u) = "-" /\ (Len(u) = 1 \/ u[2] \notin DigitChars)
        \/ Head(u) # "-" /\ Head(u) \notin DigitChars

FloatCents(t) ==
    LET u == FloatText(t)
    IN  IF Head(u) = "-" THEN 0 - UnsignedCents(Tail(u)) ELSE UnsignedCents(u)

\* A raw cell: missing (NaN), or text.
NaN == [na |-> TRUE, s |-> <<>>]
Text(s) == [na |-> FALSE, s |-> s]

\* parse_value without its upper limit.
parse_value_NoUpperLimit(x) ==
    IF x.na THEN None
    ELSE LET s == Strip(x.s)
             m == Search(s)
         IN  IF m = <<>> THEN None
             ELSE LET t == RemoveCommaDollar(m)
                  IN  IF FloatRaises(t) THEN None
                      ELSE IF FloatCents(t) <= 0 THEN None
                           ELSE Some(FloatCents(t))

parse_value(x) ==
    IF x.na THEN None
    ELSE LET s == Strip(x.s)
             m == Search(s)
         IN  IF m = <<>> THEN None
             ELSE LET t == RemoveCommaDollar(m)
                  IN  IF FloatRaises(t) THEN None
                      ELSE IF FloatCents(t) <= 0 \/ FloatCents(t) > MaxValueCents
                           THEN None
                           ELSE Some(FloatCents(t))


\* parse_value run on one raw cell.
ParseValue ==
    /\ pv_pc = "call"
    /\ pv_ret' = parse_value(pv_x)
    /\ pv_pc' = "ret"
    /\ UNCHANGED pv_x

(***************************************************************************)
(* Inputs of parse_value: every short string over an alphabet holding each *)
(* kind of character the pattern distinguishes, the missing cell, and      *)
(* the currency amounts (sign, dollar sign, grouped or ungrouped digits,   *)
(* decimals) up to a number of digits.                                     *)
(***************************************************************************)
MaxRawLen == 4
MaxDigits == 4
MaxGroups == 1

RawAlphabet == {"0", "1", "5", ",", ".", "$", "-", " ", "a"}
AmountDigits == {"0", "1", "5"}
GroupDigits == {"0", "5"}

NonEmptyUpTo(A, n) == StringsUpTo(A, n) \ {<<>>}

RECURSIVE GroupTails(_)
GroupTails(k) ==
    IF k = 0 THEN {<<>>}
    ELSE {<<",">> \o g \o r : g \in [1..3 -> GroupDigits], r \in GroupTails(k - 1)}

IntegerParts ==
    NonEmptyUpTo(AmountDigits, MaxDigits)
      \cup {h \o r : h \in NonEmptyUpTo(AmountDigits, 3),
                     r \in UNION {GroupTails(k) : k \in 1..MaxGroups}}

DecimalParts == {<<>>, <<".", "5">>, <<".", "0", "0">>, <<".", "0", "1">>}

CurrencyAmounts ==
    {sg \o dl \o ip \o dp : sg \in {<<>>, <<"-">>}, dl \in {<<>>, <<"$">>},
                            ip \in IntegerParts, dp \in DecimalParts}

RawCells ==
    {NaN} \cup {Text(s) : s \in StringsUpTo(RawAlphabet, MaxRawLen) \cup CurrencyAmounts}

(***************************************************************************)
(* Location normalisation                                                  *)
(***************************************************************************)

\* astype(str): a missing cell becomes the text "nan".
AsStr(x) == IF x.na THEN <<"n", "a", "n">> ELSE x.s

\* re.sub(r"\s+", " ", s): every maximal whitespace run becomes one space.
RECURSIVE CollapseWhitespace(_)
CollapseWhitespace(s) ==
    IF s = <<>> THEN <<>>
    ELSE IF Head(s) \in Whitespace
         THEN <<" ">> \o CollapseWhitespace(LStrip(s))
         ELSE <<Head(s)>> \o CollapseWhitespace(Tail(s))

\* The normalisation without the strip.
NormalizeLocation_NoStrip(s) == CollapseWhitespace(s)

\* .str.strip().str.replace(r"\s+", " ", regex=True)
NormalizeLocation(s) == CollapseWhitespace(Strip(s))

\* The Location column as load_data stores it.
CleanLocation(x) == NormalizeLocation(AsStr(x))

NormalizeOnce ==
    /\ loc_pc = "raw"
    /\ loc_once' = CleanLocation(loc_x)
    /\ loc_pc' = "once"
    /\ UNCHANGED <<loc_x, loc_twice>>

NormalizeTwice ==
    /\ loc_pc = "once"
    /\ loc_twice' = NormalizeLocation(loc_once)
    /\ loc_pc' = "twice"
    /\ UNCHANGED <<loc_x, loc_once>>

MaxLocLen == 5

LocAlphabet == {"a", "b", " ", "\t"}

LocCells == {NaN} \cup {Text(s) : s \in StringsUpTo(LocAlphabet, MaxLocLen)}

(***************************************************************************)
(* top_words                                                               *)
(***************************************************************************)

UpperLetters ==
    <<"A", "B", "C", "D", "E", "F", "G", "H", "I", "J", "K", "L", "M", "N",
      "O", "P", "Q", "R", "S", "T", "U", "V", "W", "X", "Y", "Z">>

LowerLetters ==
    <<"a", "b", "c", "d", "e", "f", "g", "h", "i", "j", "k", "l", "m", "n",
      "o", "p", "q", "r", "s", "t", "u", "v", "w", "x", "y", "z">>

Range(f) == {f[i] : i \in DOMAIN f}

\* str.lower(), character by character.
LowerChar(c) ==
    IF c \in Range(UpperLetters)
    THEN LowerLetters[CHOOSE i \in 1..Len(UpperLetters) : UpperLetters[i] = c]
    ELSE c

Lower(s) == [i \in 1..Len(s) |-> LowerChar(s[i])]

\* The character class [a-zA-Z'].
WordChars == Range(UpperLetters) \cup Range(LowerLetters) \cup {"'"}

\* re.findall(r"[a-zA-Z']+", s): the maximal runs of word characters.
RECURSIVE FindAllWords(_)
FindAllWords(s) ==
    IF s = <<>> THEN <<>>
    ELSE LET k == Run(s, 1, WordChars, Len(s))
         IN  IF k = 0 THEN FindAllWords(Tail(s))
             ELSE <<SubSeq(s, 1, k)>> \o FindAllWords(SubSeq(s, k + 1, Len(s)))

stop_words ==
    {<<"t", "h", "e">>,
     <<"a", "n", "d">>,
     <<"t", "o">>,
     <<"o", "f">>,
     <<"a">>,
     <<"i", "n">>,
     <<"f", "o", "r">>,
     <<"w", "i", "t", "h">>,
     <<"i", "s">>,
     <<"i", "t">>,
     <<"o", "n">>,
     <<"m", "y">>,
     <<"o", "u", "r">>,
     <<"a", "t">>,
     <<"a", "r", "e">>,
     <<"w", "a", "s">>,
     <<"b", "e">>,
     <<"h", "a", "v", "e">>,
     <<"h", "a", "s">>,
     <<"t", "h", "a", "t">>,
     <<"t", "h", "e", "y">>,
     <<"t", "h", "i", "s">>,
     <<"i">>,
     <<"w", "e">>,
     <<"y", "o", "u">>,
     <<"t", "h", "e", "i", "r">>,
     <<"a", "s">>,
     <<"s", "o">>,
     <<"i", "t", "s">>,
     <<"b", "y">>,
     <<"f", "r", "o", "m">>,
     <<"a", "n">>,
     <<"w", "e", "r", "e">>,
     <<"y", "o", "u", "r">>,
     <<"a", "l", "s", "o">>,
     <<"u", "s">>,
     <<"h", "a", "d">>}

\* series.dropna().astype(str)
DropNa(series) == SelectSeq(series, LAMBDA x : ~x.na)

\* counts[w] = counts.get(w, 0) + 1 on a dict that keeps insertion order:
\* a sequence of [w, c] entries, a new key appended at the end.
Increment(counts, w) ==
    IF \E i \in 1..Len(counts) : counts[i].w = w
    THEN [i \in 1..Len(counts) |->
            IF counts[i].w = w THEN [w |-> w, c |-> counts[i].c + 1] ELSE counts[i]]
    ELSE Append(counts, [w |-> w, c |-> 1])

\* The inner loop over the words of one comment.
RECURSIVE CountWords(_, _)
CountWords(counts, tokens) ==
    IF tokens = <<>> THEN counts
    ELSE CountWords(
            IF Head(tokens) \notin stop_words /\ Len(Head(tokens)) > 1
            THEN Increment(counts, Head(tokens))
            ELSE counts,
            Tail(tokens))

\* The outer loop over the comments.
RECURSIVE CountSeries(_, _)
CountSeries(counts, cells) ==
    IF cells = <<>> THEN counts
    ELSE CountSeries(CountWords(counts, FindAllWords(Lower(Head(cells).s))),
                     Tail(cells))

\* The insertion placing an entry before the entries of equal count: a sort
\* that reverses ties.
RECURSIVE InsertByCountDesc_BeforeEqual(_, _)
InsertByCountDesc_BeforeEqual(sorted, e) ==
    IF sorted = <<>> THEN <<e>>
    ELSE IF Head(sorted).c > e.c
         THEN <<Head(sorted)>> \o InsertByCountDesc_BeforeEqual(Tail(sorted), e)
         ELSE <<e>> \o sorted

\* Insert e into a sequence sorted by count descending, after the entries
\* whose count is equal: with SortByCountDesc, a stable descending sort.
RECURSIVE InsertByCountDesc(_, _)
InsertByCountDesc(sorted, e) ==
    IF sorted = <<>> THEN <<e>>
    ELSE IF Head(sorted).c >= e.c
         THEN <<Head(sorted)>> \o InsertByCountDesc(Tail(sorted), e)
         ELSE <<e>> \o sorted

\* sorted(counts.items(), key=lambda x: x[1], reverse=True)
RECURSIVE SortByCountDesc(_)
SortByCountDesc(items) ==
    IF items = <<>> THEN <<>>
    ELSE InsertByCountDesc(SortByCountDesc(SubSeq(items, 1, Len(items) - 1)),
                           items[Len(items)])

\* items[:n] for n >= 0
Take(items, n) == SubSeq(items, 1, IF n < Len(items) THEN n ELSE Len(items))

top_words(series, n) ==
    LET counts == CountSeries(<<>>, DropNa(series))
        top_items == Take(SortByCountDesc(counts), n)
    IN  [words |-> [i \in 1..Len(top_items) |-> top_items[i].w],
         freq |-> [i \in 1..Len(top_items) |-> top_items[i].c]]

TopWords ==
    /\ tw_pc = "call"
    /\ tw_ret' = top_words(tw_series, tw_n)
    /\ tw_pc' = "ret"
    /\ UNCHANGED <<tw_series, tw_n>>

MaxComments == 3
MaxN == 3

\* Comment cells: the two comments of the specification's example, comments
\* that repeat their words in another order, with punctuation, capitals,
\* an apostrophe, stopwords and one-letter words, the empty comment and the
\* missing one.
CommentPool ==
    {NaN,
     Text(<<"G", "r", "e", "a", "t", " ", "c", "o", "f", "f", "e", "e", " ",
       "a", "n", "d", " ", "g", "r", "e", "a", "t", " ", "s", "t", "a",
       "f", "f">>),
     Text(<<"G", "r", "e", "a", "t", " ", "s", "t", "a", "f", "f">>),
     Text(<<"c", "o", "f", "f", "e", "e">>),
     Text(<<"s", "t", "a", "f", "f", ",", " ", "c", "o", "f", "f", "e", "e",
       "!">>),
     Text(<<"I", "t", "'", "s", " ", "a", " ", "b">>),
     Text(<<"T", "H", "E", " ", "t", "h", "e", " ", "A", "n", "d">>),
     Text(<<>>)}

TwSeries == UNION {[1..k -> CommentPool] : k \in 0..MaxComments}


(***************************************************************************)
(* load_data                                                               *)
(*                                                                         *)
(* The file is [hasComment, rows]: whether it has a Comment column, and    *)
(* its rows, each a record of raw cells.  A frame is a sequence of records *)
(* whose numeric columns hold optional values (None is NaN / NaT).         *)
(* Ratings are in tenths, transaction values in cents, timestamps are kept *)
(* to the day, as the proleptic Gregorian ordinal of the date.             *)
(***************************************************************************)

\* pd.to_numeric(errors="coerce") on a Rating cell, for cells that are
\* missing, a numeral digits[.d], or no number at all.
ToNumeric(x) ==
    IF x.na THEN None
    ELSE LET s == x.s
             n == Run(s, 1, DigitChars, Len(s))
         IN  IF n = 0 THEN None
             ELSE IF n = Len(s) THEN Some(10 * DigitsValue(s))
             ELSE IF Len(s) = n + 2 /\ s[n + 1] = "." /\ s[n + 2] \in DigitChars
                  THEN Some(10 * DigitsValue(SubSeq(s, 1, n)) + DigitVal(s[n + 2]))
                  ELSE None

IsLeap(y) == (y % 4 = 0 /\ y % 100 # 0) \/ y % 400 = 0

DaysInMonth(y, m) ==
    IF m = 2 THEN (IF IsLeap(y) THEN 29 ELSE 28)
    ELSE IF m \in {4, 6, 9, 11} THEN 30 ELSE 31

RECURSIVE DaysBeforeMonth(_, _)
DaysBeforeMonth(y, m) ==
    IF m = 1 THEN 0 ELSE DaysBeforeMonth(y, m - 1) + DaysInMonth(y, m - 1)

\* date(y, m, d).toordinal()
Ordinal(y, m, d) ==
    (y - 1) * 365 + (y - 1) \div 4 - (y - 1) \div 100 + (y - 1) \div 400
      + DaysBeforeMonth(y, m) + d

\* pd.to_datetime(dayfirst=True, errors="coerce") on a timestamp cell, for
\* cells that are missing, of the form dd/mm/yyyy, or no date at all.
ToDatetime(x) ==
    IF x.na THEN None
    ELSE LET s == x.s
         IN  IF /\ Len(s) = 10
                /\ s[3] = "/" /\ s[6] = "/"
                /\ \A i \in {1, 2, 4, 5, 7, 8, 9, 10} : s[i] \in DigitChars
             THEN LET d == DigitsValue(SubSeq(s, 1, 2))
                      m == DigitsValue(SubSeq(s, 4, 5))
                      y == DigitsValue(SubSeq(s, 7, 10))
                  IN  IF y >= 1 /\ m \in 1..12 /\ d >= 1 /\ d <= DaysInMonth(y, m)
                      THEN Some(Ordinal(y, m, d))
                      ELSE None
             ELSE None

DayNames ==
    <<"Monday", "Tuesday", "Wednesday", "Thursday", "Friday", "Saturday", "Sunday">>

\* .dt.day_name(): None for NaT.
DayNameOf(when) ==
    IF when.some THEN [some |-> TRUE, v |-> DayNames[((when.v + 6) % 7) + 1]]
    ELSE [some |-> FALSE, v |-> ""]

\* One row through the column assignments of load_data.
CleanRow(row, hasComment) ==
    [Location |-> CleanLocation(row.Location),
     Rating   |-> ToNumeric(row.Rating),
     Value    |-> parse_value(row.Value),
     When     |-> ToDatetime(row.When),
     Date     |-> ToDatetime(row.When),
     Comment  |-> IF hasComment THEN row.Comment ELSE Text(<<>>),
     DayName  |-> DayNameOf(ToDatetime(row.When))]

\* dropna over the timestamp as well.
DropNaRatingValue_AlsoWhen(frame) ==
    SelectSeq(frame, LAMBDA r : r.Rating.some /\ r.Value.some /\ r.When.some)

\* df.dropna(subset=["Rating", "Transaction Value"])
DropNaRatingValue(frame) == SelectSeq(frame, LAMBDA r : r.Rating.some /\ r.Value.some)

load_data(csv) ==
    DropNaRatingValue([i \in 1..Len(csv.rows) |-> CleanRow(csv.rows[i], csv.hasComment)])

LoadData ==
    /\ ld_pc = "call"
    /\ ld_df' = load_data(ld_raw)
    /\ ld_pc' = "ret"
    /\ UNCHANGED ld_raw


(***************************************************************************)
(* build_narrative                                                         *)
(*                                                                         *)
(* A text is kept as the sequence of its whitespace-separated words, the   *)
(* value of text.split(): the template's literal words as they stand, with *)
(* the punctuation that follows an interpolated value glued to its last    *)
(* word.  Means and medians are exact fractions num / den.                 *)
(***************************************************************************)

\* Threshold of the location ranking, word limits of the narrative, number
\* of top words the narrative lists.
MinLocationCount == 5
MaxNarrativeWords == 400
MinNarrativeWords == 250
NarrativeTopWords == 6

RECURSIVE Concat(_)
Concat(chars) == IF chars = <<>> THEN "" ELSE Head(chars) \o Concat(Tail(chars))

\* Number of whitespace characters s starts with, and number of
\* non-whitespace characters s starts with.
LeadingWhitespace(s) ==
    IF \A i \in 1..Len(s) : s[i] \in Whitespace THEN Len(s)
    ELSE (CHOOSE i \in 1..Len(s) :
             s[i] \notin Whitespace /\ \A j \in 1..(i - 1) : s[j] \in Whitespace) - 1

LeadingWord(s) ==
    IF \A i \in 1..Len(s) : s[i] \notin Whitespace THEN Len(s)
    ELSE (CHOOSE i \in 1..Len(s) :
             s[i] \in Whitespace /\ \A j \in 1..(i - 1) : s[j] \notin Whitespace) - 1

\* s.split(): the maximal runs of non-whitespace characters.
RECURSIVE SplitChars(_)
SplitChars(s) ==
    LET t == SubSeq(s, LeadingWhitespace(s) + 1, Len(s))
        k == LeadingWord(t)
    IN  IF t = <<>> THEN <<>>
        ELSE <<SubSeq(t, 1, k)>> \o SplitChars(SubSeq(t, k + 1, Len(t)))

Split(s) == LET w == SplitChars(s) IN [i \in 1..Len(w) |-> Concat(w[i])]

\* The words of text + suffix, for a suffix without whitespace.
Glue(text, suffix) ==
    IF text = <<>> THEN <<suffix>>
    ELSE [i \in 1..Len(text) |->
            IF i = Len(text) THEN text[i] \o suffix ELSE text[i]]

RECURSIVE SumRatings(_)
SumRatings(frame) == IF frame = <<>> THEN 0 ELSE Head(frame).Rating.v + SumRatings(Tail(frame))

RECURSIVE SumValues(_)
SumValues(frame) == IF frame = <<>> THEN 0 ELSE Head(frame).Value.v + SumValues(Tail(frame))

\* frame[col].mean(): rating in tenths and value in cents, as a fraction.
MeanRating(frame) == [num |-> SumRatings(frame), den |-> 10 * Len(frame)]
MeanValue(frame) == [num |-> SumValues(frame), den |-> 100 * Len(frame)]

RECURSIVE InsertAscending(_, _)
InsertAscending(sorted, n) ==
    IF sorted = <<>> THEN <<n>>
    ELSE IF Head(sorted) <= n THEN <<Head(sorted)>> \o InsertAscending(Tail(sorted), n)
    ELSE <<n>> \o sorted

RECURSIVE SortedValues(_)
SortedValues(frame) ==
    IF frame = <<>> THEN <<>> ELSE InsertAscending(SortedValues(Tail(frame)), Head(frame).Value.v)

\* df["Transaction Value"].median()
MedianValue(frame) ==
    LET v == SortedValues(frame)
        n == Len(v)
    IN  IF n = 0 THEN [num |-> 0, den |-> 0]
        ELSE IF n % 2 = 1 THEN [num |-> v[(n + 1) \div 2], den |-> 100]
        ELSE [num |-> v[n \div 2] + v[n \div 2 + 1], den |-> 200]

\* f"{x:.2f}" of a non-negative fraction; "nan" for 0/0.
Fmt2(x) ==
    IF x.den = 0 THEN "nan"
    ELSE LET h == (200 * x.num + x.den) \div (2 * x.den)
         IN  ToString(h \div 100) \o "." \o ToString((h % 100) \div 10)
               \o ToString(h % 10)

LessMean(a, b) == a.num * b.den < b.num * a.den

Locations(frame) == {frame[i].Location : i \in 1..Len(frame)}
AtLocation(frame, loc) == SelectSeq(frame, LAMBDA r : r.Location = loc)

\* The ranking without its threshold.
Qualifying_NoThreshold(frame) == Locations(frame)

\* groupby("Location") restricted to count >= 5: the qualifying locations.
Qualifying(frame) ==
    {loc \in Locations(frame) : Len(AtLocation(frame, loc)) >= MinLocationCount}

LocationMean(frame, loc) == MeanRating(AtLocation(frame, loc))

\* sort_values("avg_rating", ascending=False) of the qualifying locations:
\* every order the sort may return, locations with equal means in any order.
RankedOrders(frame) ==
    LET Q == Qualifying(frame)
    IN  {s \in [1..Cardinality(Q) -> Q] :
            /\ \A i, j \in DOMAIN s : i # j => s[i] # s[j]
            /\ \A i, j \in DOMAIN s :
                  i < j => ~LessMean(LocationMean(frame, s[i]), LocationMean(frame, s[j]))}

\* sort_values(...).head(1): the rows that may come first, descending by
\* mean rating (top_loc) and ascending (bottom_loc); empty when no location
\* qualifies.
TopLocChoices(frame) ==
    {loc \in Qualifying(frame) :
        \A o \in Qualifying(frame) : ~LessMean(LocationMean(frame, loc), LocationMean(frame, o))}

BottomLocChoices(frame) ==
    {loc \in Qualifying(frame) :
        \A o \in Qualifying(frame) : ~LessMean(LocationMean(frame, o), LocationMean(frame, loc))}

\* The head(1) frame: one location, or none.
NoLoc == [some |-> FALSE, v |-> <<>>]
HeadChoices(S) == IF S = {} THEN {NoLoc} ELSE {[some |-> TRUE, v |-> loc] : loc \in S}

GenericLocText == <<"locations", "with", "enough", "samples">>

\* top_loc_text / bottom_loc_text
LocText(frame, head) ==
    IF head.some
    THEN Split(head.v) \o <<"(avg", "rating", Fmt2(LocationMean(frame, head.v)) \o ")">>
    ELSE GenericLocText

\* groupby("DayName"): rows without a timestamp have no day name and fall
\* in no group; the group keys come in alphabetical order.
DayNamesSorted ==
    <<"Friday", "Monday", "Saturday", "Sunday", "Thursday", "Tuesday", "Wednesday">>

OnDay(frame, day) == SelectSeq(frame, LAMBDA r : r.DayName.some /\ r.DayName.v = day)

DayGroups(frame) == SelectSeq(DayNamesSorted, LAMBDA day : OnDay(frame, day) # <<>>)

\* day_stats["avg_txn"].idxmax(): the first group whose mean is the largest.
BusyDay(frame) ==
    LET g == DayGroups(frame)
        k == CHOOSE i \in 1..Len(g) :
                /\ \A j \in 1..Len(g) :
                      ~LessMean(MeanValue(OnDay(frame, g[i])), MeanValue(OnDay(frame, g[j])))
                /\ \A j \in 1..(i - 1) :
                      LessMean(MeanValue(OnDay(frame, g[j])), MeanValue(OnDay(frame, g[i])))
    IN  IF g = <<>> THEN <<"the", "busier", "days">> ELSE <<g[k]>>

\* ", ".join(word_list[:6]) if word_list else "service, coffee"
CommonWords(word_list) ==
    LET w == Take(word_list, NarrativeTopWords)
    IN  IF word_list = <<>> THEN <<"service,", "coffee">>
        ELSE [i \in 1..Len(w) |->
                IF i < Len(w) THEN Concat(w[i]) \o "," ELSE Concat(w[i])]

Part1(frame, base_len) ==
    <<"This", "dashboard", "combines">>
      \o <<ToString(Len(frame))>> \o
    <<"feedback", "records", "(out", "of">>
      \o <<ToString(base_len)>> \o
    <<"total).", "The", "filtered", "view", "currently", "shows", "an",
      "average", "rating", "of">>
      \o <<Fmt2(MeanRating(frame))>> \o
    <<"out", "of", "5", "with", "mean", "spend", "of">>
      \o <<"\\$" \o Fmt2(MeanValue(frame))>> \o
    <<"and", "median", "spend", "of">>
      \o <<"\\$" \o Fmt2(MedianValue(frame)) \o ",">> \o
    <<"anchoring", "both", "satisfaction", "and", "revenue", "outcomes",
      "for", "the", "same", "customers.">>

Part2(top_loc_text, bottom_loc_text, busy_day) ==
    <<"Locations", "with", "enough", "feedback", "reveal", "variation",
      "worth", "attention:", "the", "current", "top", "performer", "on",
      "satisfaction", "is">>
      \o Glue(top_loc_text, ",") \o <<"while">> \o bottom_loc_text \o
    <<"is", "the", "laggard.", "Ratings", "and", "spend", "move", "together",
      "modestly,", "suggesting", "experience", "improvements", "can",
      "drive", "ticket", "size.">>
      \o busy_day \o
    <<"show", "the", "highest", "average", "ticket", "in", "this",
      "filtered", "view;", "scheduling", "stronger", "teams", "there",
      "could", "lift", "both", "throughput", "and", "sentiment.">>

Part3(common_words) ==
    <<"Comments", "emphasise", "themes", "such", "as">>
      \o Glue(common_words, ".") \o
    <<"Positive", "clusters", "point", "to", "friendly", "staff", "and",
      "coffee", "quality,", "while", "repeat", "mentions", "of", "price",
      "or", "speed", "hint", "at", "friction", "moments.", "We", "also",
      "track", "rating", "distribution", "and", "spend", "by", "rating,",
      "plus", "daily", "trends", "to", "spot", "momentum", "rather", "than",
      "snapshots.">>

Part4 ==
    <<"Action", "points:", "1)", "Double", "down", "on", "the", "behaviours",
      "praised", "most", "(warm", "greetings,", "coffee", "consistency)",
      "via", "quick", "shift", "briefings.", "2)", "Where", "price", "or",
      "wait-time", "keywords", "appear,", "test", "a", "small", "set", "of",
      "value", "combos", "and", "speedier", "pickup", "flow", "on", "peak",
      "days.", "3)", "Use", "the", "downloads", "to", "share", "cleaned",
      "data", "with", "store", "managers,", "and", "revisit", "the",
      "charts", "weekly", "to", "check", "whether", "interventions", "are",
      "shifting", "ratings", "and", "average", "tickets", "in", "the",
      "right", "direction.", "Together", "these", "steps", "keep", "the",
      "dashboard", "actionable", "while", "making", "the", "most", "of",
      "the", "cleaned", "dataset.">>

Filler ==
    <<"Additional", "context:", "Sustained", "focus", "on", "consistency,",
      "friendliness,", "and", "speedy", "pickup", "remains", "the", "most",
      "reliable", "lever", "for", "keeping", "ratings", "high", "and",
      "tickets", "healthy.", "Track", "these", "measures", "weekly", "and",
      "pair", "them", "with", "small", "experiments", "on", "value",
      "offers", "during", "identified", "busy", "days", "to", "keep",
      "momentum.">>

\* build_narrative padding every text that is not truncated.
build_narrative_AlwaysPads(frame, base_len, word_list, top_head, bottom_head) ==
    LET narrative == Part1(frame, base_len)
                       \o Part2(LocText(frame, top_head), LocText(frame, bottom_head),
                                BusyDay(frame))
                       \o Part3(CommonWords(word_list))
                       \o Part4
        words_count == Len(narrative)
    IN  IF words_count > MaxNarrativeWords THEN Take(narrative, MaxNarrativeWords)
        ELSE narrative \o Filler

\* build_narrative, with the rows head(1) returned for top_loc and bottom_loc.
build_narrative(frame, base_len, word_list, top_head, bottom_head) ==
    LET narrative == Part1(frame, base_len)
                       \o Part2(LocText(frame, top_head), LocText(frame, bottom_head),
                                BusyDay(frame))
                       \o Part3(CommonWords(word_list))
                       \o Part4
        words_count == Len(narrative)
    IN  IF words_count > MaxNarrativeWords THEN Take(narrative, MaxNarrativeWords)
        ELSE IF words_count < MinNarrativeWords THEN narrative \o Filler
        ELSE narrative

BuildNarrative ==
    /\ bn_pc = "call"
    /\ \E t \in HeadChoices(TopLocChoices(bn_df)), b \in HeadChoices(BottomLocChoices(bn_df)) :
          /\ bn_top_loc' = t
          /\ bn_bottom_loc' = b
          /\ bn_ret' = build_narrative(bn_df, bn_base_len, bn_words, t, b)
    /\ bn_pc' = "ret"
    /\ UNCHANGED <<bn_df, bn_base_len, bn_words>>


(***************************************************************************)
(* The script: one run per user interaction.  The widgets return their     *)
(* values in the order the script reaches them; a run ends at st.stop()    *)
(* or at the last statement, and the next interaction starts a new run.    *)
(***************************************************************************)

\* n of top_words at its call site (the default) and rows of the top table.
DefaultTopN == 12
TopTableRows == 10

NoMetrics == [shown |-> FALSE, records |-> 0, avg_rating |-> "", avg_txn |-> "",
              med_txn |-> ""]

\* df[df["Location"].isin(locations)]
FilterLocations(frame, sel) == SelectSeq(frame, LAMBDA r : r.Location \in sel)

\* df[(df["Rating"] >= rating_min) & (df["Rating"] <= rating_max)]
FilterRating(frame, lo, hi) ==
    SelectSeq(frame, LAMBDA r : r.Rating.v >= lo /\ r.Rating.v <= hi)

\* The date filter keeping the rows whose date is missing.
FilterDates_KeepsMissing(frame, start, end) ==
    SelectSeq(frame, LAMBDA r : ~r.Date.some \/ (r.Date.v >= start /\ r.Date.v <= end))

\* df[(df["Date"] >= start) & (df["Date"] <= end)]: a comparison with a
\* missing date is False.
FilterDates(frame, start, end) ==
    SelectSeq(frame, LAMBDA r : r.Date.some /\ r.Date.v >= start /\ r.Date.v <= end)

\* df["Transaction Date and Time"].notna().any()
AnyTimestamp(frame) == \E i \in 1..Len(frame) : frame[i].When.some

Timestamps(frame) == {frame[i].When.v : i \in {j \in 1..Len(frame) : frame[j].When.some}}
MinDate(frame) == CHOOSE d \in Timestamps(frame) : \A e \in Timestamps(frame) : d <= e
MaxDate(frame) == CHOOSE d \in Timestamps(frame) : \A e \in Timestamps(frame) : d >= e

\* Values of the slider: 1.0 to 5.0 in steps of 0.5; the pairs tried.
SliderValues == {10 + 5 * k : k \in 0..8}
RatingStops == {10, 35, 50}

\* Values the date input may return between min_value and max_value: a
\* range, a range whose end is not picked yet, or nothing.
DateChoices(lo, hi) ==
    {<<>>} \cup {<<s>> : s \in lo..hi}
           \cup {<<s, e>> : s \in lo..hi, e \in lo..hi}

\* Lines 181-185: the multiselect over the locations of df and its filter.
SelectLocations ==
    /\ pc = "locations"
    /\ \E sel \in SUBSET Locations(df) :
          /\ locations' = sel
          /\ df' = IF sel # {} THEN FilterLocations(df, sel) ELSE df
    /\ pc' = "rating"
    /\ UNCHANGED <<file, df_full, rating_range, chosen, warning, metrics, top_loc,
                   words, summary, bn_top_loc, bn_bottom_loc>>

\* Lines 187-190: the rating slider and its filter.
SelectRating ==
    /\ pc = "rating"
    /\ \E lo \in RatingStops \cap SliderValues, hi \in RatingStops \cap SliderValues :
          /\ lo <= hi
          /\ rating_range' = <<lo, hi>>
          /\ df' = FilterRating(df, lo, hi)
    /\ pc' = "dates"
    /\ UNCHANGED <<file, df_full, locations, chosen, warning, metrics, top_loc,
                   words, summary, bn_top_loc, bn_bottom_loc>>

\* Lines 192-207: the date input, shown when a row has a timestamp, and
\* its filter, applied when two dates are chosen.
SelectDates ==
    /\ pc = "dates"
    /\ IF AnyTimestamp(df)
       THEN \E c \in DateChoices(MinDate(df), MaxDate(df)) :
               /\ Len(c) = 2 => c[1] <= c[2]
               /\ chosen' = c
               /\ df' = IF Len(c) = 2 THEN FilterDates(df, c[1], c[2]) ELSE df
       ELSE UNCHANGED <<chosen, df>>
    /\ pc' = "check"
    /\ UNCHANGED <<file, df_full, locations, rating_range, warning, metrics, top_loc,
                   words, summary, bn_top_loc, bn_bottom_loc>>

\* The check without st.stop().
EmptyCheck_NoStop ==
    /\ pc = "check"
    /\ warning' = (df = <<>>)
    /\ pc' = "render"
    /\ UNCHANGED <<file, df_full, df, locations, rating_range, chosen, metrics,
                   top_loc, words, summary, bn_top_loc, bn_bottom_loc>>

\* Lines 209-218: the download button, then the warning and st.stop() on an
\* empty frame.
EmptyCheck ==
    /\ pc = "check"
    /\ IF df = <<>>
       THEN warning' = TRUE /\ pc' = "stopped"
       ELSE warning' = warning /\ pc' = "render"
    /\ UNCHANGED <<file, df_full, df, locations, rating_range, chosen, metrics,
                   top_loc, words, summary, bn_top_loc, bn_bottom_loc>>

\* Lines 220-225: the KPI cards.
Metrics(frame) ==
    [shown |-> TRUE, records |-> Len(frame), avg_rating |-> Fmt2(MeanRating(frame)),
     avg_txn |-> Fmt2(MeanValue(frame)), med_txn |-> Fmt2(MedianValue(frame))]

\* Lines 264-271: the tables top_loc may be, .head(10) of each ranking.
TopLocTables(frame) == {Take(s, TopTableRows) : s \in RankedOrders(frame)}

\* df["Comment"]
Comments(frame) == [i \in 1..Len(frame) |-> frame[i].Comment]

\* Lines 220-296: KPI cards, charts, top table, top words and the summary.
Render ==
    /\ pc = "render"
    /\ metrics' = Metrics(df)
    /\ top_loc' \in TopLocTables(df)
    /\ words' = top_words(Comments(df), DefaultTopN).words
    /\ \E t \in HeadChoices(TopLocChoices(df)), b \in HeadChoices(BottomLocChoices(df)) :
          /\ bn_top_loc' = t
          /\ bn_bottom_loc' = b
          /\ summary' = build_narrative(df, Len(df_full), words', t, b)
    /\ pc' = "done"
    /\ UNCHANGED <<file, df_full, df, locations, rating_range, chosen, warning>>

\* A rerun that starts from the filtered frame of the last run.
Rerun_FromFiltered ==
    /\ pc \in {"stopped", "done"}
    /\ df_full' = df
    /\ df' = df
    /\ locations' = {}
    /\ rating_range' = <<10, 50>>
    /\ chosen' = <<>>
    /\ warning' = FALSE
    /\ metrics' = NoMetrics
    /\ top_loc' = <<>>
    /\ words' = <<>>
    /\ summary' = <<>>
    /\ bn_top_loc' = NoLoc
    /\ bn_bottom_loc' = NoLoc
    /\ pc' = "locations"
    /\ UNCHANGED file

\* The next interaction: the script runs again from the top; load_data
\* answers from its cache, df is a fresh copy of df_full.
Rerun ==
    /\ pc \in {"stopped", "done"}
    /\ df' = df_full
    /\ locations' = {}
    /\ rating_range' = <<10, 50>>
    /\ chosen' = <<>>
    /\ warning' = FALSE
    /\ metrics' = NoMetrics
    /\ top_loc' = <<>>
    /\ words' = <<>>
    /\ summary' = <<>>
    /\ bn_top_loc' = NoLoc
    /\ bn_bottom_loc' = NoLoc
    /\ pc' = "locations"
    /\ UNCHANGED <<file, df_full>>


(***************************************************************************)
(* Inputs                                                                  *)
(***************************************************************************)

\* load_data on its own: files of a few rows whose cells are missing,
\* well-formed or malformed, with and without a Comment column.
MaxRows == 2

RatingCells == {NaN, Text(<<"4", ".", "5">>), Text(<<"a", "b", "c">>)}
ValueCells == {NaN, Text(<<"$", "1", "2", ".", "5", "0">>), Text(<<"$", "9", "9", "9">>)}
WhenCells == {Text(<<"n", "/", "a">>), Text(<<"0", "1", "/", "0", "2", "/", "2", "0", "2", "4">>)}
LocationCells == {Text(<<" ", " ", "M", "a", "i", "n", " ", " ", " ", "S", "t", " ">>)}

RawRows(commentCells) ==
    [Location : LocationCells, Rating : RatingCells, Value : ValueCells,
     When : WhenCells, Comment : commentCells]

LoadFiles ==
    UNION {[hasComment : {TRUE}, rows : [1..k -> RawRows({NaN, Text(<<"o", "k">>)})]]
             \cup [hasComment : {FALSE}, rows : [1..k -> RawRows({NaN})]] : k \in 0..MaxRows}

\* build_narrative on its own: frames of one or two locations, the first
\* with a name of any number of words up to MaxNameWords, with fewer or no
\* fewer records than the ranking asks for, with or without timestamps, and
\* word lists of up to MaxWordList words.
MaxNameWords == 90
MaxWordList == 7

\* A name of k words.
NameOfWords(k) ==
    IF k = 0 THEN <<>> ELSE [i \in 1..(2 * k - 1) |-> IF i % 2 = 1 THEN "a" ELSE " "]

Rec(loc, rating, value, when) ==
    [Location |-> loc, Rating |-> Some(rating), Value |-> Some(value), When |-> when,
     Date |-> when, Comment |-> Text(<<>>), DayName |-> DayNameOf(when)]

Copies(r, n) == [i \in 1..n |-> r]

NarrativeWhen(dated) == IF dated THEN ToDatetime(Text(<<"0", "1", "/", "0", "2", "/", "2", "0", "2", "4">>)) ELSE None

NarrativeFrames ==
    {Copies(Rec(NameOfWords(k), 30, 1250, NarrativeWhen(dated)), n)
       \o Copies(Rec(<<"D", "o", "c", "k">>, 50, 700, NarrativeWhen(dated)), m) :
         k \in 0..MaxNameWords, dated \in BOOLEAN,
         n \in {1, MinLocationCount - 1, MinLocationCount},
         m \in {0, MinLocationCount}}

WordTokens ==
    <<<<"g", "r", "e", "a", "t">>,
      <<"s", "t", "a", "f", "f">>,
      <<"c", "o", "f", "f", "e", "e">>,
      <<"i", "t", "'", "s">>,
      <<"s", "l", "o", "w">>,
      <<"p", "r", "i", "c", "e">>,
      <<"q", "u", "e", "u", "e">>,
      <<"m", "i", "l", "k">>,
      <<"w", "a", "r", "m">>>>

\* The script: files with a copies of a dated row at "Main St", u copies of
\* an undated row at "Main St", b copies of a dated row at "Dock" and one
\* row without a rating.
MaxCopies == 5
MaxUndated == 2

RawRow(loc, rating, value, when, comment) ==
    [Location |-> Text(loc), Rating |-> Text(rating), Value |-> Text(value),
     When |-> when, Comment |-> Text(comment)]

MainDated ==
    RawRow(<<" ", " ", "M", "a", "i", "n", " ", " ", " ", "S", "t", " ">>, <<"3">>,
           <<"$", "1", "2", ".", "5", "0">>, Text(<<"0", "1", "/", "0", "2", "/", "2", "0", "2", "4">>),
           <<"G", "r", "e", "a", "t", " ", "c", "o", "f", "f", "e", "e">>)

MainUndated ==
    RawRow(<<"M", "a", "i", "n", " ", "S", "t">>, <<"4">>,
           <<"2", "0">>, NaN,
           <<"s", "l", "o", "w", " ", "q", "u", "e", "u", "e">>)

DockDated ==
    RawRow(<<"D", "o", "c", "k">>, <<"5">>,
           <<"$", "7">>, Text(<<"0", "2", "/", "0", "2", "/", "2", "0", "2", "4">>),
           <<"G", "r", "e", "a", "t", " ", "s", "t", "a", "f", "f">>)

Unrated ==
    RawRow(<<"D", "o", "c", "k">>, <<"a", "b", "c">>,
           <<"$", "5">>, Text(<<"0", "2", "/", "0", "2", "/", "2", "0", "2", "4">>),
           <<"b", "a", "d">>)

DashFiles ==
    {[hasComment |-> TRUE,
      rows |-> Copies(MainDated, a) \o Copies(MainUndated, u) \o Copies(DockDated, b)
                 \o <<Unrated>>] :
        a \in 0..MaxCopies, u \in 0..MaxUndated, b \in 0..MaxCopies}

(***************************************************************************)
(* Specifications                                                          *)
(***************************************************************************)

varsParse == <<pv_x, pv_ret, pv_pc>>
varsNorm == <<loc_x, loc_once, loc_twice, loc_pc>>
varsWords == <<tw_series, tw_n, tw_ret, tw_pc>>
varsLoad == <<ld_raw, ld_df, ld_pc>>
varsNarr == <<bn_df, bn_base_len, bn_words, bn_ret, bn_pc>>
varsLocals == <<bn_top_loc, bn_bottom_loc>>
varsScript == <<file, df_full, df, locations, rating_range, chosen, warning, metrics,
                top_loc, words, summary, pc>>
vars == <<varsParse, varsNorm, varsWords, varsLoad, varsNarr, varsLocals, varsScript>>

NoWords == [words |-> <<>>, freq |-> <<>>]
NoFile == [hasComment |-> FALSE, rows |-> <<>>]

\* The parts of the state a specification does not use.
IdleParse == pv_x = NaN /\ pv_ret = None /\ pv_pc = "idle"
IdleNorm == loc_x = NaN /\ loc_once = <<>> /\ loc_twice = <<>> /\ loc_pc = "idle"
IdleWords == tw_series = <<>> /\ tw_n = 0 /\ tw_ret = NoWords /\ tw_pc = "idle"
IdleLoad == ld_raw = NoFile /\ ld_df = <<>> /\ ld_pc = "idle"
IdleNarr ==
    bn_df = <<>> /\ bn_base_len = 0 /\ bn_words = <<>> /\ bn_ret = <<>> /\ bn_pc = "idle"
IdleLocals == bn_top_loc = NoLoc /\ bn_bottom_loc = NoLoc
IdleScript ==
    /\ file = NoFile /\ df_full = <<>> /\ df = <<>> /\ locations = {}
    /\ rating_range = <<10, 50>> /\ chosen = <<>> /\ warning = FALSE
    /\ metrics = NoMetrics /\ top_loc = <<>> /\ words = <<>> /\ summary = <<>>
    /\ pc = "idle"

\* parse_value on every raw cell.
InitParse ==
    /\ pv_x \in RawCells /\ pv_ret = None /\ pv_pc = "call"
    /\ IdleNorm /\ IdleWords /\ IdleLoad /\ IdleNarr /\ IdleLocals /\ IdleScript

NextParse ==
    ParseValue
      /\ UNCHANGED <<varsNorm, varsWords, varsLoad, varsNarr, varsLocals, varsScript>>

SpecParse == InitParse /\ [][NextParse]_vars

\* Location normalisation on every raw cell, then on its own result.
InitNorm ==
    /\ loc_x \in LocCells /\ loc_once = <<>> /\ loc_twice = <<>> /\ loc_pc = "raw"
    /\ IdleParse /\ IdleWords /\ IdleLoad /\ IdleNarr /\ IdleLocals /\ IdleScript

NextNorm ==
    \/ NormalizeOnce
         /\ UNCHANGED <<varsParse, varsWords, varsLoad, varsNarr, varsLocals, varsScript>>
    \/ NormalizeTwice
         /\ UNCHANGED <<varsParse, varsWords, varsLoad, varsNarr, varsLocals, varsScript>>

SpecNorm == InitNorm /\ [][NextNorm]_vars

\* top_words on every series of comments and every n.
InitWords ==
    /\ tw_series \in TwSeries /\ tw_n \in 0..MaxN /\ tw_ret = NoWords /\ tw_pc = "call"
    /\ IdleParse /\ IdleNorm /\ IdleLoad /\ IdleNarr /\ IdleLocals /\ IdleScript

NextWords ==
    TopWords
      /\ UNCHANGED <<varsParse, varsNorm, varsLoad, varsNarr, varsLocals, varsScript>>

SpecWords == InitWords /\ [][NextWords]_vars

\* load_data on every file.
InitLoad ==
    /\ ld_raw \in LoadFiles /\ ld_df = <<>> /\ ld_pc = "call"
    /\ IdleParse /\ IdleNorm /\ IdleWords /\ IdleNarr /\ IdleLocals /\ IdleScript

NextLoad ==
    LoadData
      /\ UNCHANGED <<varsParse, varsNorm, varsWords, varsNarr, varsLocals, varsScript>>

SpecLoad == InitLoad /\ [][NextLoad]_vars

\* build_narrative on every frame and word list.
InitNarr ==
    /\ bn_df \in NarrativeFrames
    /\ bn_base_len = Len(bn_df) + 1
    /\ bn_words \in {Take(WordTokens, n) : n \in 0..MaxWordList}
    /\ bn_ret = <<>>
    /\ bn_pc = "call"
    /\ IdleParse /\ IdleNorm /\ IdleWords /\ IdleLoad /\ IdleLocals /\ IdleScript

NextNarr ==
    BuildNarrative
      /\ UNCHANGED <<varsParse, varsNorm, varsWords, varsLoad, varsScript>>

SpecNarr == InitNarr /\ [][NextNarr]_vars

\* The script: the first run on every file, then any number of reruns.
Init ==
    /\ file \in DashFiles
    /\ df_full = load_data(file)
    /\ df = df_full
    /\ locations = {}
    /\ rating_range = <<10, 50>>
    /\ chosen = <<>>
    /\ warning = FALSE
    /\ metrics = NoMetrics
    /\ top_loc = <<>>
    /\ words = <<>>
    /\ summary = <<>>
    /\ pc = "locations"
    /\ IdleParse /\ IdleNorm /\ IdleWords /\ IdleLoad /\ IdleNarr /\ IdleLocals

Next ==
    \/ SelectLocations /\ UNCHANGED <<varsParse, varsNorm, varsWords, varsLoad, varsNarr>>
    \/ SelectRating /\ UNCHANGED <<varsParse, varsNorm, varsWords, varsLoad, varsNarr>>
    \/ SelectDates /\ UNCHANGED <<varsParse, varsNorm, varsWords, varsLoad, varsNarr>>
    \/ EmptyCheck /\ UNCHANGED <<varsParse, varsNorm, varsWords, varsLoad, varsNarr>>
    \/ Render /\ UNCHANGED <<varsParse, varsNorm, varsWords, varsLoad, varsNarr>>
    \/ Rerun /\ UNCHANGED <<varsParse, varsNorm, varsWords, varsLoad, varsNarr>>

Spec == Init /\ [][Next]_vars

(***************************************************************************)
(* Claims about parse_value                                                *)
(***************************************************************************)

HasDigit(s) == \E i \in 1..Len(s) : s[i] \in DigitChars

\* C1: parse_value returns null or a value v with 0 < v <= 500, and returns
\* null for every input that holds no digit (the missing cell included).
C1_ParseValueRange ==
    pv_pc = "ret" =>
        /\ pv_ret.some => (0 < pv_ret.v /\ pv_ret.v <= 50000)
        /\ (pv_x.na \/ ~HasDigit(pv_x.s)) => ~pv_ret.some

\* A cell that holds a dollar sign, a comma group and decimals was parsed
\* to the largest value allowed.
C1_Witness ==
    /\ pv_pc = "ret"
    /\ pv_ret = Some(50000)
    /\ ~pv_x.na
    /\ \E i \in 1..Len(pv_x.s) : pv_x.s[i] = "$"

\* The claim's reading of a currency amount: optional minus, optional $,
\* digits ungrouped or grouped in thousands, optional 1-2 decimals.
Unsigned(s) ==
    LET a == IF s # <<>> /\ Head(s) = "-" THEN Tail(s) ELSE s
    IN  IF a # <<>> /\ Head(a) = "$" THEN Tail(a) ELSE a

DotAt(s) ==
    IF \E i \in 1..Len(s) : s[i] = "."
    THEN CHOOSE i \in 1..Len(s) : s[i] = "." /\ \A j \in 1..(i - 1) : s[j] # "."
    ELSE Len(s) + 1

WholePart(s) == SubSeq(Unsigned(s), 1, DotAt(Unsigned(s)) - 1)
FractionPart(s) == SubSeq(Unsigned(s), DotAt(Unsigned(s)) + 1, Len(Unsigned(s)))

AllDigits(d) == \A i \in 1..Len(d) : d[i] \in DigitChars

IsGrouped(w) ==
    \E h \in 1..3 :
        /\ Len(w) > h
        /\ (Len(w) - h) % 4 = 0
        /\ \A k \in 1..Len(w) :
              IF k > h /\ (k - h) % 4 = 1 THEN w[k] = "," ELSE w[k] \in DigitChars

IsCurrencyAmount(s) ==
    /\ WholePart(s) # <<>>
    /\ AllDigits(WholePart(s)) \/ IsGrouped(WholePart(s))
    /\ AllDigits(FractionPart(s))
    /\ IF DotAt(Unsigned(s)) <= Len(Unsigned(s))
       THEN Len(FractionPart(s)) \in {1, 2}
       ELSE TRUE

AmountCents(s) ==
    LET w == SelectSeq(WholePart(s), LAMBDA c : c # ",")
        f == FractionPart(s)
        u == Cents(w, f)
    IN  IF s # <<>> /\ Head(s) = "-" THEN 0 - u ELSE u

\* C2: a currency amount whose value is <= 0 or > 500 parses to null,
\* whether its digits are grouped by commas or not.
C2_OutOfRangeAmountRejected ==
    (pv_pc = "ret" /\ ~pv_x.na /\ IsCurrencyAmount(pv_x.s)
       /\ (AmountCents(pv_x.s) <= 0 \/ AmountCents(pv_x.s) > 50000))
    => ~pv_ret.some



NoStrayWhitespace(s) ==
    /\ s # <<>> => (Head(s) \notin Whitespace /\ s[Len(s)] \notin Whitespace)
    /\ \A i \in 1..(Len(s) - 1) : ~(s[i] \in Whitespace /\ s[i + 1] \in Whitespace)

\* C8: location normalisation is idempotent, and a normalised location has
\* no leading, trailing or doubled whitespace.
C8_NormalizeIdempotent ==
    /\ loc_pc \in {"once", "twice"} => NoStrayWhitespace(loc_once)
    /\ loc_pc = "twice" => loc_twice = loc_once

\* A cell with leading, trailing and doubled inner whitespace was normalised
\* twice.
C8_Witness ==
    /\ loc_pc = "twice"
    /\ ~loc_x.na
    /\ Len(loc_x.s) >= 5
    /\ Head(loc_x.s) \in Whitespace
    /\ loc_x.s[Len(loc_x.s)] \in Whitespace
    /\ \E i \in 2..(Len(loc_x.s) - 2) :
          loc_x.s[i] \notin Whitespace /\ loc_x.s[i + 1] \in Whitespace
    /\ Len(loc_once) >= 1

(***************************************************************************)
(* Claims about load_data                                                  *)
(***************************************************************************)

RowKept(row) == ToNumeric(row.Rating).some /\ parse_value(row.Value).some

\* C3: load_data returns a row if and only if its rating coerces to a
\* number and its transaction value parses; no returned record has a null
\* rating or value, and a null timestamp or a missing comment drops no row.
C3_LoadKeepsExactlyRatedValued ==
    ld_pc = "ret" =>
        LET kept == SelectSeq(ld_raw.rows, RowKept)
        IN  /\ Len(ld_df) = Len(kept)
            /\ \A i \in 1..Len(ld_df) :
                  /\ ld_df[i].Rating.some /\ ld_df[i].Value.some
                  /\ ld_df[i].Rating = ToNumeric(kept[i].Rating)
                  /\ ld_df[i].Value = parse_value(kept[i].Value)
                  /\ ld_df[i].When = ToDatetime(kept[i].When)
                  /\ ld_raw.hasComment => ld_df[i].Comment = kept[i].Comment

\* Of two rows, the one without rating was dropped and the one with an
\* unparseable timestamp and a missing comment was kept.
C3_Witness ==
    /\ ld_pc = "ret"
    /\ Len(ld_raw.rows) = 2
    /\ ld_raw.hasComment
    /\ ~ToNumeric(ld_raw.rows[1].Rating).some
    /\ Len(ld_df) = 1
    /\ ~ld_df[1].When.some
    /\ ld_df[1].Comment.na


(***************************************************************************)
(* Claims about top_words                                                  *)
(***************************************************************************)

\* The words of all comments, in the order met.
RECURSIVE WordStream(_)
WordStream(cells) ==
    IF cells = <<>> THEN <<>>
    ELSE (IF Head(cells).na THEN <<>> ELSE FindAllWords(Lower(Head(cells).s)))
           \o WordStream(Tail(cells))

QualifyingWords(stream) ==
    {stream[i] : i \in {j \in 1..Len(stream) :
                          stream[j] \notin stop_words /\ Len(stream[j]) > 1}}

Occurrences(stream, w) == Cardinality({i \in 1..Len(stream) : stream[i] = w})

FirstMet(stream, w) ==
    CHOOSE i \in 1..Len(stream) : stream[i] = w /\ \A j \in 1..(i - 1) : stream[j] # w

\* w ranks before v: a higher count, or the same count and met first.
RanksBefore(stream, w, v) ==
    \/ Occurrences(stream, w) > Occurrences(stream, v)
    \/ /\ Occurrences(stream, w) = Occurrences(stream, v)
       /\ FirstMet(stream, w) < FirstMet(stream, v)

\* C7: top_words returns at most n (word, count) pairs, the n highest-count
\* qualifying words by count descending, words of equal count in the order
\* first met; no stopword and no word of length <= 1 is returned, and the
\* result is a pair of empty sequences when no word qualifies.
C7_TopWordsRanked ==
    tw_pc = "ret" =>
        LET stream == WordStream(tw_series)
            Q == QualifyingWords(stream)
            W == tw_ret.words
            F == tw_ret.freq
        IN  /\ Len(W) = Len(F)
            /\ Len(W) = (IF tw_n < Cardinality(Q) THEN tw_n ELSE Cardinality(Q))
            /\ \A i \in 1..Len(W) :
                  /\ W[i] \in Q
                  /\ W[i] \notin stop_words /\ Len(W[i]) > 1
                  /\ F[i] = Occurrences(stream, W[i])
            /\ \A i, j \in 1..Len(W) : i < j => RanksBefore(stream, W[i], W[j])
            /\ \A q \in Q \ Range(W) : \A i \in 1..Len(W) : RanksBefore(stream, W[i], q)
            /\ Q = {} => (W = <<>> /\ F = <<>>)

\* The series of the specification's example and a third comment: "great"
\* comes first with count 3; "coffee" and "staff" tie at 2 and n = 2 keeps
\* the one met first.
C7_Witness ==
    /\ tw_pc = "ret"
    /\ Len(tw_series) = 3
    /\ tw_n = 2
    /\ tw_ret.words = << <<"g", "r", "e", "a", "t">>, <<"c", "o", "f", "f", "e", "e">> >>
    /\ tw_ret.freq = <<3, 2>>
    /\ Occurrences(WordStream(tw_series), <<"s", "t", "a", "f", "f">>) = 2

(***************************************************************************)
(* Claims about build_narrative                                            *)
(***************************************************************************)

\* C4: for every frame of at least one record, every word list and every
\* location name, the text build_narrative returns has between 250 and 400
\* words; the filler of the under-250 branch never takes it above 400.
C4_NarrativeLength ==
    bn_pc = "ret" => (Len(bn_ret) >= 250 /\ Len(bn_ret) <= 400)

\* The filler was appended to a text built with the generic location
\* phrase, no weekday and no words.
C4_Witness ==
    /\ bn_pc = "ret"
    /\ bn_words = <<>>
    /\ ~bn_top_loc.some
    /\ \A i \in 1..Len(bn_df) : ~bn_df[i].When.some
    /\ SubSeq(bn_ret, Len(bn_ret) - Len(Filler) + 1, Len(bn_ret)) = Filler

(***************************************************************************)
(* Claims about the script                                                 *)
(***************************************************************************)

RecordsAt(frame, loc) == Cardinality({i \in 1..Len(frame) : frame[i].Location = loc})

SmallLocations(frame) == {loc \in Locations(frame) : RecordsAt(frame, loc) < 5}

\* Position in the summary of the first word of the top location's text
\* and of the bottom location's text.
TopTextAt == 1 + CHOOSE i \in 2..Len(summary) :
                     summary[i] = "is" /\ summary[i - 1] = "satisfaction"
BottomTextAt == 1 + CHOOSE i \in TopTextAt..Len(summary) : summary[i] = "while"

\* The summary names loc at position p: its words, then "(avg rating".
NamesAt(p, loc) ==
    /\ SubSeq(summary, p, p + Len(Split(loc)) - 1) = Split(loc)
    /\ summary[p + Len(Split(loc))] = "(avg"

GenericAt(p) ==
    /\ SubSeq(summary, p, p + 2) = <<"locations", "with", "enough">>
    /\ summary[p + 3] \in {"samples", "samples,"}

\* C5: a location with fewer than 5 records in the filtered frame is never
\* the summary's top location, its bottom location or a row of the top
\* table; when no location has 5 records the summary uses the generic phrase
\* for both and the top table is empty.
C5_SmallLocationsNotRanked ==
    pc = "done" =>
        /\ \A loc \in SmallLocations(df) :
              /\ ~NamesAt(TopTextAt, loc)
              /\ ~NamesAt(BottomTextAt, loc)
              /\ \A i \in 1..Len(top_loc) : top_loc[i] # loc
        /\ SmallLocations(df) = Locations(df) =>
              /\ GenericAt(TopTextAt)
              /\ GenericAt(BottomTextAt)
              /\ top_loc = <<>>

\* A location with exactly 4 records and the higher mean rating was passed
\* over: the other location, with 5 records, is named top and bottom.
C5_Witness ==
    /\ pc = "done"
    /\ \E small \in Locations(df), big \in Locations(df) :
          /\ RecordsAt(df, small) = 4
          /\ RecordsAt(df, big) = 5
          /\ LessMean(LocationMean(df, big), LocationMean(df, small))
          /\ NamesAt(TopTextAt, big)
          /\ NamesAt(BottomTextAt, big)
          /\ top_loc = <<big>>

NothingRendered ==
    /\ metrics = NoMetrics
    /\ top_loc = <<>>
    /\ words = <<>>
    /\ summary = <<>>

\* C6: in every run, an empty filtered frame ends the run at the warning:
\* no KPI, table, top words or summary is computed for it, and no run
\* reaches those steps with an empty frame.
C6_EmptyFrameStops ==
    /\ pc = "stopped" => (df = <<>> /\ warning /\ NothingRendered)
    /\ pc \in {"render", "done"} => (df # <<>> /\ ~warning)
    /\ pc \in {"locations", "rating", "dates", "check", "render"} => NothingRendered

\* The filters emptied a frame that was not empty, and the run stopped.
C6_Witness ==
    /\ pc = "stopped"
    /\ df_full # <<>>
    /\ locations # {}
    /\ rating_range # <<10, 50>>

CountIn(frame, r) == Cardinality({i \in 1..Len(frame) : frame[i] = r})

\* The word of the summary that states base_len.
BaseLenWord == summary[2 + CHOOSE i \in 1..Len(summary) : summary[i] = "(out"]

\* C9: after any sequence of runs the base frame is the cleaned file,
\* unchanged; the filtered frame holds only records of the base frame, and
\* the summary is built with the size of the base frame as base_len.
C9_BaseFrameUnchanged ==
    /\ df_full = load_data(file)
    /\ \A i \in 1..Len(df) : CountIn(df, df[i]) <= CountIn(df_full, df[i])
    /\ pc = "done" => BaseLenWord = ToString(Len(load_data(file)))

\* A run under all three filters showed fewer records than the base frame.
C9_Witness ==
    /\ pc = "done"
    /\ locations # {}
    /\ rating_range # <<10, 50>>
    /\ Len(chosen) = 2
    /\ Len(df) < Len(df_full)
    /\ Len(df_full) < Len(file.rows)

AfterDates == {"check", "stopped", "render", "done"}

\* The frame the date filter is given: df_full under the location and
\* rating filters of the run.
BeforeDates ==
    FilterRating(IF locations # {} THEN FilterLocations(df_full, locations) ELSE df_full,
                 rating_range[1], rating_range[2])

HasUndated(frame) == \E i \in 1..Len(frame) : ~frame[i].When.some

\* C10 as stated: once a range of two dates is chosen, no record without a
\* timestamp is left in the filtered frame; records without a timestamp are
\* left only in a run where no record that survived the location and rating
\* filters has a timestamp.
C10_UndatedOnlyWithoutTimestamps ==
    pc \in AfterDates =>
        /\ Len(chosen) = 2 => ~HasUndated(df)
        /\ HasUndated(df) => ~AnyTimestamp(BeforeDates)

\* C10 amended: once a range of two dates is chosen, no record without a
\* timestamp is left in the filtered frame; records without a timestamp are
\* left only in a run where the date filter is skipped: no surviving record
\* has a timestamp, or the date input did not return two dates.
C10_UndatedOnlyWhenFilterSkipped ==
    pc \in AfterDates =>
        /\ Len(chosen) = 2 => ~HasUndated(df)
        /\ HasUndated(df) => (~AnyTimestamp(BeforeDates) \/ Len(chosen) # 2)
        /\ (~AnyTimestamp(BeforeDates) \/ Len(chosen) # 2) => df = BeforeDates

\* The default full range was chosen over a frame holding records with
\* and without a timestamp, and the records without one are gone.
C10_Witness ==
    /\ pc \in AfterDates
    /\ Len(chosen) = 2
    /\ HasUndated(BeforeDates)
    /\ chosen = <<MinDate(BeforeDates), MaxDate(BeforeDates)>>
    /\ chosen[1] < chosen[2]
    /\ df # <<>>
    /\ Len(df) < Len(BeforeDates)

====
